---------------------------- MODULE Spec2Model ----------------------------
(***************************************************************************)
(* iota-tangle-peerer (src/main.go): a sidecar that keeps the peering of   *)
(* the local hornet node with the main hornet node reconciled.             *)
(*                                                                         *)
(* The model follows main() from flag validation to the scheduler loop and *)
(* tryPeering() call by call.  Go strings that the code concatenates and   *)
(* compares (multiaddresses, peer ids) are sequences of tokens; a token is *)
(* a run of characters, separators such as "/p2p/" are tokens themselves,  *)
(* concatenation is \o and the empty string is <<>>.  Node names and flag  *)
(* values, which the code only tests for equality, are atomic strings.     *)
(***************************************************************************)
EXTENDS Integers, Sequences, FiniteSets, TLC

VARIABLES
    cfg,          \* flags and environment as parsed by main()
    keyFile,      \* what is stored under --private-key-file
    pc,           \* position of the single thread of control
    exitCode,     \* status passed to os.Exit, 0 while the process runs
    multiaddress, \* result of calculateMultiaddress, <<>> before it is computed
    table,        \* peer table of the main node (owned by the peering service)
    podList,      \* outcome of the pod List call of the current cycle
    peers,        \* decoded GET response of the current cycle
    idx,          \* position of the range loop over peers
    calls,        \* requests sent to the peering service in the current cycle
    done,         \* loop variable of the inner retry loop
    ret,          \* "none", "running", "true" or "false": state of the latest cycle
    prevRet       \* ret of the cycle before the latest one

vars == <<cfg, keyFile, pc, exitCode, multiaddress, table, podList, peers, idx,
          calls, done, ret, prevRet>>

---------------------------------------------------------------------------
(* Bounds of the model *)

MaxPeers == 2      \* longest peer table / GET response
MaxPods == 2       \* most pods a List call returns

---------------------------------------------------------------------------
(* Program constants *)

DefaultGossipPort == 15600
StatusOK == 200
StatusNoContent == 204

---------------------------------------------------------------------------
(* Strings as token sequences *)

\* Drops empty tokens, so that equal token sequences are equal strings.
Str(tokens) == SelectSeq(tokens, LAMBDA t : t # "")

\* fmt's %d for the gossip ports the model uses.
Itoa(n) ==
    CASE n = 15600 -> "15600"
      [] n = 15601 -> "15601"
      [] n = 0 -> "0"
      [] n = -1 -> "-1"
      [] OTHER -> "<int>"


---------------------------------------------------------------------------
(* Configuration: flags (main.go 42-50) and environment (main.go 26-29) *)

BaseConfig ==
    [mainNodeName |-> "node-a",
     iotaHornetSelector |-> "app=hornet",
     iotaHornetNs |-> "iota",
     privateKeyFile |-> "identity.key",
     gossipProtocolPort |-> DefaultGossipPort,
     MyNodeName |-> "node-b",
     MyIP |-> "10.0.0.5"]

\* The base configuration and the configurations that differ from it in one
\* value: a flag left at its "" default, an environment variable that is unset
\* (env.Parse leaves the field ""), the local node being the main node, a
\* malformed local IP and a non-positive gossip port; and the local node being
\* the main node while a required flag is missing.
Configs ==
    {BaseConfig,
     [BaseConfig EXCEPT !.mainNodeName = ""],
     [BaseConfig EXCEPT !.iotaHornetSelector = ""],
     [BaseConfig EXCEPT !.iotaHornetNs = ""],
     [BaseConfig EXCEPT !.privateKeyFile = ""],
     [BaseConfig EXCEPT !.MyNodeName = ""],
     [BaseConfig EXCEPT !.MyIP = ""],
     [BaseConfig EXCEPT !.MyNodeName = "node-a"],
     [BaseConfig EXCEPT !.MyIP = "not-an-ip"],
     [BaseConfig EXCEPT !.gossipProtocolPort = 0],
     [BaseConfig EXCEPT !.MyNodeName = "node-a", !.iotaHornetSelector = ""]}

\* Contents of the private key file; "absent" until the hornet container
\* writes it.
KeyFiles == {"absent", "unreadable", "notPEM", "notPKCS8", "notEd25519", "ed25519"}

\* libp2p peer id of the key stored in the key file.
PeerIDOf(file) == IF file = "ed25519" THEN "QmMe" ELSE "<no-key>"

\* The flag checks of main(): the first empty required flag ends the process.
FlagsValid(c) ==
    /\ c.mainNodeName # ""
    /\ c.iotaHornetSelector # ""
    /\ c.iotaHornetNs # ""
    /\ c.privateKeyFile # ""

\* Variant: the main-node test is left out.
IsMainNode_Never(c) == FALSE

\* "Is main node, not running"
IsMainNode(c) == c.mainNodeName = c.MyNodeName

\* os.Stat reports something other than IsNotExist
KeyFilePresent(file) == file # "absent"

\* Variant: the error of readEd25519PrivateKeyFromPEMFile is dropped.
KeyReadable_AnyFile(file) == TRUE

\* readEd25519PrivateKeyFromPEMFile succeeds
KeyReadable(file) == file = "ed25519"

\* fmt.Sprintf("/ip4/%s/tcp/%d/p2p/%s", myIp, gossipProtocolPort, peerID)
FormatMultiaddress(myIp, port, peerID) ==
    Str(<<"/ip4/", myIp, "/tcp/", Itoa(port), "/p2p/", peerID>>)

---------------------------------------------------------------------------
(* JSON peer objects as decoded into map[string]interface{} *)

JString(v) == [t |-> "string", v |-> v]
JAbsent == [t |-> "absent", v |-> <<>>]
JNumber == [t |-> "number", v |-> <<>>]
\* field values of "alias" carry an atomic string
JName(s) == [t |-> "string", s |-> s]
JNoName == [t |-> "absent", s |-> ""]
\* field values of "multiAddress"
JList(l) == [t |-> "list", l |-> l]
JNoList == [t |-> "absent", l |-> <<>>]
JNotAList == [t |-> "string", l |-> <<>>]

AddrGood == <<"/ip4/", "10.0.0.5", "/tcp/", "15600">>
AddrOld == <<"/ip4/", "10.0.0.9", "/tcp/", "15600">>

\* An id with an invalid percent escape: url.Parse, and so http.NewRequest,
\* rejects the DELETE url built from it.
BadEscapeId == <<"%zz">>

PeerRecord(alias, id, ma) == [alias |-> alias, id |-> id, multiAddress |-> ma]

\* Records under the local node's usual name with every field in place.
MineWellFormed ==
    {PeerRecord(JName("node-b"), JString(i), JList(<<JString(a)>>)) :
        i \in {<<"QmMe">>, <<"QmOld">>, BadEscapeId}, a \in {AddrGood, AddrOld}}

\* Records under that name that lack a field the code reads.
MineMalformed ==
    {PeerRecord(JName("node-b"), JString(<<"QmOld">>), m) :
        m \in {JNoList, JNotAList, JList(<<>>), JList(<<JNumber>>)}}
    \cup {PeerRecord(JName("node-b"), JAbsent, JList(<<JString(AddrGood)>>)),
          PeerRecord(JName("node-b"), JNumber, JList(<<JString(AddrOld)>>))}

\* Records of other peers, one of them holding the local node's peer id.
Others ==
    {PeerRecord(JName("node-c"), JString(<<"QmOther">>), JList(<<JString(AddrOld)>>)),
     PeerRecord(JName("node-c"), JString(<<"QmMe">>), JList(<<JString(AddrGood)>>)),
     PeerRecord(JNoName, JString(<<"QmAnon">>), JList(<<JString(AddrOld)>>))}

PeerRecords == MineWellFormed \cup MineMalformed \cup Others

RECURSIVE SeqsUpTo(_, _)
SeqsUpTo(S, n) ==
    IF n = 0 THEN {<<>>}
    ELSE LET shorter == SeqsUpTo(S, n - 1)
         IN shorter \cup {Append(q, x) : q \in {r \in shorter : Len(r) = n - 1}, x \in S}

\* The peering service keys its records by id: no two records of a table
\* share a string id.
UniqueIds(t) ==
    \A i, j \in 1..Len(t) :
        (i # j /\ t[i].id.t = "string" /\ t[j].id.t = "string") => t[i].id.v # t[j].id.v

PeerTables == {t \in SeqsUpTo(PeerRecords, MaxPeers) : UniqueIds(t)}

---------------------------------------------------------------------------
(* The outside world: the pod directory and the peering service *)

PodIPs == {"", "10.1.0.7"}

\* Outcomes of Pods(ns).List: an error (the 5 s context expiring included) or
\* the PodIP of each pod found.
PodLists ==
    {[err |-> TRUE, items |-> <<>>]}
    \cup {[err |-> FALSE, items |-> l] : l \in SeqsUpTo(PodIPs, MaxPods)}

NoPodList == [err |-> TRUE, items |-> <<>>]

Statuses == {200, 204, 500}

\* What http.DefaultClient.Do yields: a transport error, a response with a
\* status, or nothing at all (the client has no timeout).
TransportError == [kind |-> "error", status |-> 0, body |-> ""]
NoAnswer == [kind |-> "hang", status |-> 0, body |-> ""]
Response(status, body) == [kind |-> "response", status |-> status, body |-> body]

\* Answers to DELETE and POST
Answers == {TransportError, NoAnswer} \cup {Response(st, "") : st \in Statuses}

\* Answers to GET; a 200 carries the table, a body that cannot be read to
\* its end, or a body that is no JSON array of objects.
GetAnswers ==
    {TransportError, NoAnswer}
    \cup {Response(st, "") : st \in Statuses \ {200}}
    \cup {Response(200, b) : b \in {"peers", "unreadable", "undecodable"}}

NoArg == [id |-> <<>>, multiAddress |-> <<>>, alias |-> ""]
Call(op, arg, res) == [op |-> op, arg |-> arg, res |-> res]

\* The service carries a request out exactly when it answers with the success
\* status of that request: 204 for DELETE, 200 for POST.
ServiceApplied(op, res) ==
    /\ res.kind = "response"
    /\ res.status = (IF op = "DELETE" THEN 204 ELSE 200)

\* DELETE /peers/{id} applied by the service
ServiceDelete(t, id) ==
    SelectSeq(t, LAMBDA r : ~(r.id.t = "string" /\ r.id.v = id))

\* POST /peers applied by the service: the record's id is the peer id the
\* posted address ends in, its first address what precedes "/p2p/<id>"; it
\* takes the place of a record of the same id.
ServicePost(t, payload) ==
    LET n == Len(payload.multiAddress)
        id == SubSeq(payload.multiAddress, n, n)
        addr == SubSeq(payload.multiAddress, 1, n - 2)
    IN Append(ServiceDelete(t, id),
              PeerRecord(JName(payload.alias), JString(id), JList(<<JString(addr)>>)))

---------------------------------------------------------------------------
(* Decisions of tryPeering *)

\* Variant: takes the first pod whatever the number of pods found.
LookupResolved_FirstPod(o) ==
    /\ ~o.err
    /\ Len(o.items) >= 1
    /\ o.items[1] # ""

\* The pod list resolves the main hornet pod: no error, exactly one pod, and
\* that pod has an IP.
LookupResolved(o) ==
    /\ ~o.err
    /\ Len(o.items) = 1
    /\ o.items[1] # ""

\* Variant: the status of the GET response is not looked at.
GetSucceeded_AnyStatus(res) ==
    /\ res.kind = "response"
    /\ res.body \notin {"unreadable", "undecodable"}

\* GET answered with 200 and a body that decodes
GetSucceeded(res) ==
    /\ res.kind = "response"
    /\ res.status = StatusOK
    /\ res.body = "peers"

\* Variant: 200 is taken for a successful DELETE as well.
DeleteSucceeded_Any2xx(res) == res.kind = "response" /\ res.status \in {200, 204}

DeleteSucceeded(res) == res.kind = "response" /\ res.status = StatusNoContent

\* Variant: any answered POST counts as success.
PostSucceeded_AnyResponse(res) == res.kind = "response"

PostSucceeded(res) == res.kind = "response" /\ res.status = StatusOK

\* Variant: any record with a string alias is taken for the local node's.
IsMine_AnyNamed(peer, myNodeName) == peer.alias.t = "string"

\* alias, ok := peer["alias"].(string); ok && alias == myNodeName
IsMine(peer, myNodeName) == peer.alias.t = "string" /\ peer.alias.s = myNodeName

\* Variant: a missing first address reads as the empty string.
getMultiaddressFromPeer_Lenient(peer) ==
    LET raw == peer.multiAddress IN
    IF raw.t = "list" /\ Len(raw.l) > 0 /\ raw.l[1].t = "string"
    THEN [str |-> raw.l[1].v, ok |-> TRUE]
    ELSE [str |-> <<>>, ok |-> TRUE]

getMultiaddressFromPeer(peer) ==
    LET raw == peer.multiAddress IN
    IF raw.t = "absent" THEN [str |-> <<>>, ok |-> FALSE]
    ELSE IF raw.t # "list" \/ Len(raw.l) = 0 THEN [str |-> <<>>, ok |-> FALSE]
    ELSE IF raw.l[1].t # "string" THEN [str |-> <<>>, ok |-> FALSE]
    ELSE [str |-> raw.l[1].v, ok |-> TRUE]

\* peerIdInMain, ok := peer["id"].(string)
HasPeerId(peer) == peer.id.t = "string"

\* Variant: the "/p2p/" separator is left out.
FullMultiInMain_NoSeparator(multiaddressInMain, peerIdInMain) ==
    Str(multiaddressInMain \o peerIdInMain)

\* fullMultiInMain := multiaddressInMain + "/p2p/" + peerIdInMain
FullMultiInMain(multiaddressInMain, peerIdInMain) ==
    Str(multiaddressInMain \o <<"/p2p/">> \o peerIdInMain)

\* http.NewRequest("DELETE", ".../peers/" + id, nil) succeeds
DeleteUrlBuilds(id) == id # BadEscapeId

\* Variant: the address is posted without its "/p2p/<id>" suffix.
Payload_BareAddress(ma, myNodeName) ==
    [id |-> <<>>, multiAddress |-> SubSeq(ma, 1, Len(ma) - 2), alias |-> myNodeName]

\* The payload of the POST
Payload(ma, myNodeName) == [id |-> <<>>, multiAddress |-> ma, alias |-> myNodeName]

---------------------------------------------------------------------------
(* Initial state *)

Init ==
    /\ cfg \in Configs
    /\ keyFile \in KeyFiles
    /\ pc = "start"
    /\ exitCode = 0
    /\ multiaddress = <<>>
    /\ table \in PeerTables
    /\ podList = NoPodList
    /\ peers = <<>>
    /\ idx = 0
    /\ calls = <<>>
    /\ done = FALSE
    /\ ret = "none"
    /\ prevRet = "none"

cycleVars == <<podList, peers, idx, calls, done, ret, prevRet>>

---------------------------------------------------------------------------
(* main(): start-up *)

\* main.go 52-73: env.Parse failing is only logged; an empty required flag
\* ends the process with status 1.
ValidateFlags ==
    /\ pc = "start"
    /\ IF FlagsValid(cfg)
       THEN pc' = "checkMain" /\ exitCode' = exitCode
       ELSE pc' = "exited" /\ exitCode' = 1
    /\ UNCHANGED <<cfg, keyFile, multiaddress, table, cycleVars>>

\* main.go 75-80
CheckMainNode ==
    /\ pc = "checkMain"
    /\ pc' = IF IsMainNode(cfg) THEN "idle" ELSE "k8s"
    /\ UNCHANGED <<cfg, keyFile, exitCode, multiaddress, table, cycleVars>>

\* main.go 77-79: for { time.Sleep(10000 * time.Hour) }
Idle ==
    /\ pc = "idle"
    /\ UNCHANGED vars

\* main.go 82-91: rest.InClusterConfig and kubernetes.NewForConfig
LoadK8s ==
    /\ pc = "k8s"
    /\ \E ok \in BOOLEAN :
         IF ok
         THEN pc' = "waitKey" /\ exitCode' = exitCode
         ELSE pc' = "exited" /\ exitCode' = 1
    /\ UNCHANGED <<cfg, keyFile, multiaddress, table, cycleVars>>

\* calculateMultiaddress, main.go 107-113: poll until the file is there
WaitKey ==
    /\ pc = "waitKey"
    /\ pc' = IF KeyFilePresent(keyFile) THEN "loadKey" ELSE "waitKey"
    /\ UNCHANGED <<cfg, keyFile, exitCode, multiaddress, table, cycleVars>>

\* The hornet container stores its identity.
KeyFileWritten ==
    /\ keyFile = "absent"
    /\ pc = "waitKey"
    /\ keyFile' \in KeyFiles \ {"absent"}
    /\ UNCHANGED <<cfg, pc, exitCode, multiaddress, table, cycleVars>>

\* calculateMultiaddress, main.go 115-128, and its caller, main.go 92-97
LoadKey ==
    /\ pc = "loadKey"
    /\ IF KeyReadable(keyFile)
       THEN /\ multiaddress' = FormatMultiaddress(cfg.MyIP, cfg.gossipProtocolPort,
                                                  PeerIDOf(keyFile))
            /\ pc' = "tryPeering"
            /\ exitCode' = exitCode
       ELSE /\ multiaddress' = multiaddress
            /\ pc' = "exited"
            /\ exitCode' = 1
    /\ UNCHANGED <<cfg, keyFile, table, cycleVars>>

---------------------------------------------------------------------------
(* tryPeering *)

\* return b: control goes to the post statement of the inner loop of main()
Return(b) ==
    /\ ret' = IF b THEN "true" ELSE "false"
    /\ done' = b
    /\ pc' = "sleepRetry"

\* Variant: the loop does not move on to the next record.
Advance_Repeat ==
    /\ idx' = idx
    /\ pc' = "scan"
    /\ UNCHANGED <<done, ret>>

\* The next iteration of the range loop, or the code after it
Advance ==
    /\ idx' = idx + 1
    /\ pc' = IF idx + 1 > Len(peers) THEN "post" ELSE "scan"
    /\ UNCHANGED <<done, ret>>

\* main.go 158-178: the pod lookup that opens every cycle
Lookup ==
    /\ pc = "tryPeering"
    /\ \E o \in PodLists :
         /\ podList' = o
         /\ IF LookupResolved(o)
            THEN pc' = "get" /\ ret' = "running" /\ done' = done
            ELSE Return(FALSE)
    /\ prevRet' = ret
    /\ calls' = <<>>
    /\ peers' = <<>>
    /\ idx' = 0
    /\ UNCHANGED <<cfg, keyFile, exitCode, multiaddress, table>>

\* main.go 179-212: GET /peers
Get ==
    /\ pc = "get"
    /\ \E res \in GetAnswers :
         /\ calls' = Append(calls, Call("GET", NoArg, res))
         /\ IF res.kind = "hang"
            THEN pc' = "blocked" /\ UNCHANGED <<peers, idx, done, ret>>
            ELSE IF GetSucceeded(res)
            THEN /\ peers' = table
                 /\ idx' = 1
                 /\ pc' = IF Len(table) = 0 THEN "post" ELSE "scan"
                 /\ UNCHANGED <<done, ret>>
            ELSE Return(FALSE) /\ UNCHANGED <<peers, idx>>
    /\ UNCHANGED <<cfg, keyFile, exitCode, multiaddress, table, podList, prevRet>>

\* main.go 213-214: a record that is not under the local node's name
ScanSkip ==
    /\ pc = "scan"
    /\ ~IsMine(peers[idx], cfg.MyNodeName)
    /\ Advance
    /\ UNCHANGED <<cfg, keyFile, exitCode, multiaddress, table, podList, peers,
                   calls, prevRet>>

\* main.go 216-225: the record lacks its first multiAddress or its id
ScanMalformed ==
    /\ pc = "scan"
    /\ IsMine(peers[idx], cfg.MyNodeName)
    /\ ~getMultiaddressFromPeer(peers[idx]).ok \/ ~HasPeerId(peers[idx])
    /\ Return(FALSE)
    /\ UNCHANGED <<cfg, keyFile, exitCode, multiaddress, table, podList, peers,
                   idx, calls, prevRet>>

\* The record under the local node's name at idx can be compared
Comparable ==
    /\ pc = "scan"
    /\ IsMine(peers[idx], cfg.MyNodeName)
    /\ getMultiaddressFromPeer(peers[idx]).ok
    /\ HasPeerId(peers[idx])

\* The comparison of main.go 226-227
IsCurrent(peer, ma) ==
    FullMultiInMain(getMultiaddressFromPeer(peer).str, peer.id.v) = ma

\* main.go 226-229: the record is up to date
ScanConverged ==
    /\ Comparable
    /\ IsCurrent(peers[idx], multiaddress)
    /\ Return(TRUE)
    /\ UNCHANGED <<cfg, keyFile, exitCode, multiaddress, table, podList, peers,
                   idx, calls, prevRet>>

\* main.go 230-237: the record is stale and the DELETE request cannot be built
ScanDeleteUnbuilt ==
    /\ Comparable
    /\ ~IsCurrent(peers[idx], multiaddress)
    /\ ~DeleteUrlBuilds(peers[idx].id.v)
    /\ Return(FALSE)
    /\ UNCHANGED <<cfg, keyFile, exitCode, multiaddress, table, podList, peers,
                   idx, calls, prevRet>>

\* main.go 230-250: the record is stale, DELETE /peers/{id}
ScanDelete ==
    /\ Comparable
    /\ ~IsCurrent(peers[idx], multiaddress)
    /\ DeleteUrlBuilds(peers[idx].id.v)
    /\ \E res \in Answers :
         /\ calls' = Append(calls,
                Call("DELETE", [NoArg EXCEPT !.id = peers[idx].id.v], res))
         /\ table' = IF ServiceApplied("DELETE", res)
                      THEN ServiceDelete(table, peers[idx].id.v)
                      ELSE table
         /\ IF res.kind = "hang"
            THEN pc' = "blocked" /\ UNCHANGED <<idx, done, ret>>
            ELSE IF DeleteSucceeded(res)
            THEN Advance
            ELSE Return(FALSE) /\ UNCHANGED idx
    /\ UNCHANGED <<cfg, keyFile, exitCode, multiaddress, podList, peers, prevRet>>

\* main.go 252-278: POST /peers
Post ==
    /\ pc = "post"
    /\ \E res \in Answers :
         /\ calls' = Append(calls,
                Call("POST", Payload(multiaddress, cfg.MyNodeName), res))
         /\ table' = IF ServiceApplied("POST", res)
                      THEN ServicePost(table, Payload(multiaddress, cfg.MyNodeName))
                      ELSE table
         /\ IF res.kind = "hang"
            THEN pc' = "blocked" /\ UNCHANGED <<done, ret>>
            ELSE Return(PostSucceeded(res))
    /\ UNCHANGED <<cfg, keyFile, exitCode, multiaddress, podList, peers, idx, prevRet>>

\* A request that is never answered: http.DefaultClient waits forever.
Blocked ==
    /\ pc = "blocked"
    /\ UNCHANGED vars

---------------------------------------------------------------------------
(* main(): the scheduler loop, main.go 99-103 *)

\* Variant: the inner loop ends after one attempt, failed or not.
AfterRetrySleep_Refresh(d) == "sleepRefresh"

\* Where the inner loop goes after time.Sleep(retryPeriod): its condition
\* !done is tested after the post statement.
AfterRetrySleep(d) == IF d THEN "sleepRefresh" ELSE "tryPeering"

\* time.Sleep(retryPeriod), then the test of !done
SleepRetry ==
    /\ pc = "sleepRetry"
    /\ pc' = AfterRetrySleep(done)
    /\ UNCHANGED <<cfg, keyFile, exitCode, multiaddress, table, cycleVars>>

\* time.Sleep(refreshPeriod), then a new inner loop with done := false
SleepRefresh ==
    /\ pc = "sleepRefresh"
    /\ pc' = "tryPeering"
    /\ done' = FALSE
    /\ UNCHANGED <<cfg, keyFile, exitCode, multiaddress, table, podList, peers,
                   idx, calls, ret, prevRet>>

\* os.Exit was called
Exited ==
    /\ pc = "exited"
    /\ UNCHANGED vars

Next ==
    \/ ValidateFlags
    \/ CheckMainNode
    \/ Idle
    \/ LoadK8s
    \/ WaitKey
    \/ KeyFileWritten
    \/ LoadKey
    \/ Lookup
    \/ Get
    \/ ScanSkip
    \/ ScanMalformed
    \/ ScanConverged
    \/ ScanDeleteUnbuilt
    \/ ScanDelete
    \/ Post
    \/ Blocked
    \/ SleepRetry
    \/ SleepRefresh
    \/ Exited

Spec == Init /\ [][Next]_vars

---------------------------------------------------------------------------
(* Vocabulary of the properties, stated on the records and the requests    *)
(* themselves rather than through the operators that model the code        *)

Me == cfg.MyNodeName

UnderMyName(r) == r.alias = [t |-> "string", s |-> Me]

HasFirstAddress(r) ==
    /\ r.multiAddress.t = "list"
    /\ Len(r.multiAddress.l) >= 1
    /\ r.multiAddress.l[1].t = "string"

WellFormed(r) == HasFirstAddress(r) /\ r.id.t = "string"

\* <first multiAddress>/p2p/<id>
Reconstructed(r) ==
    SelectSeq(r.multiAddress.l[1].v \o <<"/p2p/">> \o r.id.v, LAMBDA t : t # "")

UpToDate(r) == WellFormed(r) /\ Reconstructed(r) = multiaddress
Stale(r) == WellFormed(r) /\ Reconstructed(r) # multiaddress

\* Positions of the snapshot that hold a record under the local node's name
MineAt == {i \in 1..Len(peers) : UnderMyName(peers[i])}

FirstMine == CHOOSE i \in MineAt : \A j \in MineAt : i <= j

\* The GET of the current cycle returned 200 and a decodable list
Listed ==
    /\ Len(calls) >= 1
    /\ calls[1].op = "GET"
    /\ calls[1].res = [kind |-> "response", status |-> 200, body |-> "peers"]

Mutations == SelectSeq(calls, LAMBDA c : c.op \in {"DELETE", "POST"})
Deletes == SelectSeq(calls, LAMBDA c : c.op = "DELETE")
Posts == SelectSeq(calls, LAMBDA c : c.op = "POST")

Answered(c, status) == c.res.kind = "response" /\ c.res.status = status

IsDeleteOf(c, r) ==
    c.op = "DELETE" /\ c.arg = [id |-> r.id.v, multiAddress |-> <<>>, alias |-> ""]

IsCreate(c) ==
    c.op = "POST" /\ c.arg = [id |-> <<>>, multiAddress |-> multiaddress, alias |-> Me]

\* The latest cycle has returned to the scheduler
Returned == ret \in {"true", "false"}

\* The latest cycle has returned or waits for an answer that never comes
CycleOver == Returned \/ pc = "blocked"

---------------------------------------------------------------------------
(* C1 *)

\* C1 as claimed: in a returned cycle whose GET succeeded, a stale record
\* under the local node's name means the requests after the GET are exactly
\* one DELETE keyed by that record's id, then one POST.
C1_AsClaimed ==
    (Returned /\ Listed) =>
        \A i \in MineAt :
            Stale(peers[i]) =>
                /\ Len(Mutations) = 2
                /\ IsDeleteOf(Mutations[1], peers[i])
                /\ IsCreate(Mutations[2])

\* The DELETE url for the record can be built (no invalid percent escape)
Addressable(r) == r.id.v # <<"%zz">>

\* C1, amended: in a returned cycle whose GET succeeded and whose snapshot
\* holds exactly one record under the local node's name, that record stale
\* and its id usable in a url, the first request after the GET is the one
\* DELETE keyed by its id; answered 204 it is followed by exactly one POST
\* of the desired pair, and otherwise no POST is issued and the cycle fails.
C1_DeleteThenCreate ==
    (Returned /\ Listed /\ Cardinality(MineAt) = 1) =>
        LET r == peers[FirstMine] IN
        (Stale(r) /\ Addressable(r)) =>
            /\ Len(Deletes) = 1
            /\ IsDeleteOf(Mutations[1], r)
            /\ IF Answered(Mutations[1], 204)
               THEN Len(Mutations) = 2 /\ IsCreate(Mutations[2])
               ELSE Len(Mutations) = 1 /\ ret = "false"

C1_Witness ==
    /\ Returned /\ Listed /\ Cardinality(MineAt) = 1
    /\ Stale(peers[FirstMine]) /\ Addressable(peers[FirstMine])
    /\ Len(Mutations) = 2
    /\ Answered(Mutations[1], 204)
    /\ Answered(Mutations[2], 200)
    /\ ret = "true"

---------------------------------------------------------------------------
(* C2 *)

\* C2 as claimed: in a returned cycle whose GET succeeded, an up-to-date
\* record under the local node's name anywhere in the list means no DELETE,
\* no POST and success.
C2_AsClaimed ==
    (Returned /\ Listed /\ \E i \in MineAt : UpToDate(peers[i])) =>
        (Mutations = <<>> /\ ret = "true")

\* C2, amended: in a returned cycle whose GET succeeded, if the first record
\* under the local node's name is up to date, no DELETE and no POST is issued
\* and the cycle succeeds, whatever the other records are.
C2_FirstUpToDate ==
    (Returned /\ Listed /\ MineAt # {}) =>
        (UpToDate(peers[FirstMine]) => (Mutations = <<>> /\ ret = "true"))

C2_Witness ==
    /\ Returned /\ Listed /\ Cardinality(MineAt) = 2
    /\ UpToDate(peers[FirstMine])
    /\ Mutations = <<>>
    /\ \E i \in MineAt : Stale(peers[i])
    /\ ret = "true"

---------------------------------------------------------------------------
(* C3 *)

\* C3: once the GET of a cycle succeeded with no record under the local
\* node's name, the cycle issues no DELETE, and when it is over it has issued
\* exactly one POST, carrying the desired multiaddress and the node's name.
C3_CreateOnly ==
    (Listed /\ MineAt = {}) =>
        /\ Deletes = <<>>
        /\ Len(Posts) <= 1
        /\ CycleOver => (Len(Posts) = 1 /\ IsCreate(Posts[1]))

C3_Witness ==
    /\ Returned /\ Listed /\ MineAt = {} /\ Len(peers) >= 1
    /\ Len(Mutations) = 1
    /\ IsCreate(Mutations[1])
    /\ ret = "true"

---------------------------------------------------------------------------
(* C4 *)

\* The lookup failed, found no pod, found several, or found one without IP
LookupUnresolved(o) ==
    \/ o.err
    \/ Len(o.items) = 0
    \/ Len(o.items) >= 2
    \/ Len(o.items) = 1 /\ o.items[1] = ""

\* C4: a cycle whose lookup does not resolve to one pod with an IP reports
\* failure, sends nothing to the peering service, and the process goes on to
\* the retry sleep and the next attempt instead of exiting.
C4_LookupFailure ==
    (ret # "none" /\ LookupUnresolved(podList)) =>
        /\ ret = "false"
        /\ calls = <<>>
        /\ pc \in {"sleepRetry", "tryPeering"}
        /\ exitCode = 0

C4_Witness ==
    /\ ret = "false"
    /\ ~podList.err
    /\ Len(podList.items) = 2
    /\ podList.items[1] # ""
    /\ pc = "tryPeering"

---------------------------------------------------------------------------
(* C5 *)

\* C5 as claimed: the cycle that follows a successful cycle issues no DELETE
\* and no POST and reports success.
C5_AsClaimed ==
    (prevRet = "true" /\ Returned) => (Mutations = <<>> /\ ret = "true")

\* C5, amended: the cycle that follows a successful cycle issues no DELETE and
\* no POST, and it reports success whenever its own lookup and GET succeed.
C5_Idempotent ==
    prevRet = "true" =>
        /\ Mutations = <<>>
        /\ (Returned /\ Listed) => ret = "true"

\* The successful cycle created the record: the snapshot is longer than any
\* initial table.
C5_Witness ==
    /\ prevRet = "true"
    /\ Returned /\ Listed
    /\ Len(peers) = MaxPeers + 1
    /\ ret = "true"

---------------------------------------------------------------------------
(* C6 *)

MineInTable == {i \in 1..Len(table) : UnderMyName(table[i])}

\* C6 as claimed: when a cycle has reported success the peer table holds at
\* most one record under the local node's name.
C6_AsClaimed ==
    (Returned /\ ret = "true") => Cardinality(MineInTable) <= 1

FirstMineInTable == CHOOSE i \in MineInTable : \A j \in MineInTable : i <= j

\* C6, amended: when a cycle has reported success the first record of the
\* peer table under the local node's name is up to date, and if the cycle
\* succeeded by its POST that record is the only one under that name.
C6_FirstIsCurrent ==
    (Returned /\ ret = "true") =>
        /\ MineInTable # {}
        /\ UpToDate(table[FirstMineInTable])
        /\ Len(Posts) = 1 => Cardinality(MineInTable) = 1

\* Two records under the name at the start, one at the end
C6_Witness ==
    /\ Returned /\ ret = "true"
    /\ Cardinality(MineAt) = 2
    /\ Len(Posts) = 1
    /\ Cardinality(MineInTable) = 1
    /\ UpToDate(table[FirstMineInTable])

---------------------------------------------------------------------------
(* C7 *)

---------------------------------------------------------------------------
(* C8 *)

\* C8 as claimed: when the first record under the local node's name lacks a
\* field, the returned cycle has issued a DELETE, and a POST after it if the
\* DELETE was answered 204.
C8_AsClaimed ==
    (Returned /\ Listed /\ MineAt # {}) =>
        (~WellFormed(peers[FirstMine]) =>
            /\ Len(Deletes) >= 1
            /\ Answered(Deletes[1], 204) => Len(Posts) = 1)

\* C8, amended: a record under the local node's name that lacks a field is
\* never deleted and no POST is issued in a cycle whose snapshot holds one;
\* when such a record is the first under that name the cycle reports failure
\* without any DELETE or POST.
C8_MalformedFails ==
    /\ Listed =>
          \A i \in MineAt :
              ~WellFormed(peers[i]) =>
                  /\ Posts = <<>>
                  /\ \A k \in 1..Len(Deletes) : ~IsDeleteOf(Deletes[k], peers[i])
    /\ (Returned /\ Listed /\ MineAt # {}) =>
          (~WellFormed(peers[FirstMine]) => (ret = "false" /\ Mutations = <<>>))

C8_Witness ==
    /\ Returned /\ Listed /\ MineAt # {}
    /\ peers[FirstMine].multiAddress = [t |-> "list", l |-> <<>>]
    /\ peers[FirstMine].id.t = "string"
    /\ ret = "false"
    /\ Len(calls) = 1

---------------------------------------------------------------------------
(* C9 *)

CallFailed(c) ==
    \/ c.res.kind = "error"
    \/ /\ c.res.kind = "response"
       /\ \/ c.op = "GET" /\ (c.res.status # 200 \/ c.res.body # "peers")
          \/ c.op = "DELETE" /\ c.res.status # 204
          \/ c.op = "POST" /\ c.res.status # 200

\* C9: a failed request is the last request of its cycle and the cycle has
\* then reported failure.
C9_FailFast ==
    \A k \in 1..Len(calls) :
        CallFailed(calls[k]) =>
            /\ k = Len(calls)
            /\ ret = "false"
            /\ pc \in {"sleepRetry", "tryPeering"}

C9_Witness ==
    /\ Len(calls) = 3
    /\ calls[2].op = "DELETE" /\ Answered(calls[2], 204)
    /\ calls[3].op = "DELETE" /\ Answered(calls[3], 200)
    /\ ret = "false"

---------------------------------------------------------------------------
(* C10 *)

InCycle == pc \in {"tryPeering", "get", "scan", "post"}

\* C10: a cycle that fails hands over to the retry sleep, the retry sleep
\* after a failed cycle leads to the next attempt, and after a failed cycle
\* the process is never in the refresh sleep and has never exited.
C10_RetryAfterFailure ==
    [][/\ (InCycle /\ pc' # pc /\ ret' = "false") => pc' = "sleepRetry"
       /\ (pc = "sleepRetry" /\ ret = "false") => pc' \in {"sleepRetry", "tryPeering"}
       /\ ret' = "false" => (pc' \in {"sleepRetry", "tryPeering"} /\ exitCode' = 0)]_vars

\* Two failed cycles in a row, the second about to be followed by a third
C10_Witness ==
    /\ prevRet = "false"
    /\ ret = "false"
    /\ pc = "tryPeering"

---------------------------------------------------------------------------
(* C11 *)

\* C11 as claimed: the retry sleep never follows a successful cycle; after
\* success the scheduler is in the refresh sleep or in the next attempt.
C11_AsClaimed == ret = "true" => pc # "sleepRetry"

---------------------------------------------------------------------------
(* C13 *)

ConfigIncomplete ==
    \/ cfg.mainNodeName = ""
    \/ cfg.iotaHornetSelector = ""
    \/ cfg.iotaHornetNs = ""
    \/ cfg.privateKeyFile = ""
    \/ cfg.MyNodeName = ""
    \/ cfg.MyIP = ""

\* C13 as claimed: with a required configuration value missing no cycle ever
\* starts: no lookup is made and no request is sent.
C13_AsClaimed ==
    ConfigIncomplete => (ret = "none" /\ calls = <<>> /\ pc \notin {"get", "scan", "post"})

---------------------------------------------------------------------------
(* C14 *)

KeyUndecodable == keyFile \in {"unreadable", "notPEM", "notPKCS8", "notEd25519"}

CycleStarted == ret # "none" \/ pc \in {"tryPeering", "get", "scan", "post", "blocked"}

\* C14: while the key file is absent the waiting process keeps polling and no
\* cycle has started; with a file that does not yield an Ed25519 key the
\* loader exits with status 1 and no cycle has started; a cycle starts only
\* with the multiaddress computed from a valid key.
C14_IdentityLoading ==
    [][/\ (pc = "waitKey" /\ keyFile = "absent" /\ keyFile' = "absent") =>
              (pc' = "waitKey" /\ exitCode' = 0)
       /\ (pc = "waitKey" /\ keyFile # "absent") => pc' = "loadKey"
       /\ (pc = "loadKey" /\ KeyUndecodable) => (pc' = "exited" /\ exitCode' = 1)
       /\ (keyFile' = "absent" \/ KeyUndecodable') => (~CycleStarted' /\ multiaddress' = <<>>)
       /\ CycleStarted' =>
              (keyFile' = "ed25519" /\ multiaddress' # <<>> /\ multiaddress'[Len(multiaddress')] = "QmMe")]_vars

\* The first cycle is about to start, the multiaddress is there
C14_Witness ==
    /\ pc = "tryPeering"
    /\ ret = "none"
    /\ keyFile = "ed25519"
    /\ multiaddress = <<"/ip4/", "10.0.0.5", "/tcp/", "15600", "/p2p/", "QmMe">>

---------------------------------------------------------------------------
(* C15 *)

\* C15 as claimed: no cycle is left waiting for ever for an answer; every
\* call is given up after a timeout and the cycle returns.
C15_AsClaimed == pc # "blocked"

---------------------------------------------------------------------------
(* C16 *)

InvalidAddressInput ==
    \/ cfg.MyIP \in {"", "not-an-ip"}
    \/ cfg.gossipProtocolPort <= 0

\* C16 as claimed: with a malformed or empty local IP or a non-positive gossip
\* port no multiaddress is ever produced and no cycle runs.
C16_AsClaimed == InvalidAddressInput => (multiaddress = <<>> /\ ret = "none")

---------------------------------------------------------------------------
(* C17 *)

\* C17: when a POST has been issued, every record of the snapshot under the
\* local node's name was deleted before it in the same cycle by a DELETE
\* answered 204.
C17_DeleteBeforeCreate ==
    \A p \in 1..Len(calls) :
        calls[p].op = "POST" =>
            /\ Listed
            /\ \A i \in MineAt :
                   \E k \in 1..(p - 1) :
                       IsDeleteOf(calls[k], peers[i]) /\ Answered(calls[k], 204)

\* A POST that follows the DELETE of the one record under the name
C17_Witness ==
    /\ Cardinality(MineAt) = 1
    /\ Len(calls) = 3
    /\ calls[2].op = "DELETE"
    /\ calls[3].op = "POST"

---------------------------------------------------------------------------
(* C19 *)

\* C19: a cycle has reported success only if its lookup resolved, none of its
\* requests failed, and either its snapshot holds an up-to-date record under
\* the local node's name or its POST of the desired pair was answered 200.
C19_SuccessOnlyIf ==
    ret = "true" =>
        /\ ~LookupUnresolved(podList)
        /\ Listed
        /\ \A k \in 1..Len(calls) : ~CallFailed(calls[k])
        /\ \/ \E i \in MineAt : UpToDate(peers[i])
           \/ Len(Posts) = 1 /\ IsCreate(Posts[1]) /\ Answered(Posts[1], 200)

\* Success through the POST, after a DELETE, without any up-to-date record
C19_Witness ==
    /\ ret = "true"
    /\ Len(Deletes) = 1
    /\ Len(Posts) = 1
    /\ \A i \in MineAt : ~UpToDate(peers[i])

---------------------------------------------------------------------------
(* C20 *)

LocalIsMain == cfg.mainNodeName = cfg.MyNodeName

\* C20 as claimed: when the main node's name is the local node's name the
\* process never exits, never loads the key and starts no cycle.
C20_AsClaimed ==
    LocalIsMain =>
        /\ pc \in {"start", "checkMain", "idle"}
        /\ exitCode = 0
        /\ multiaddress = <<>>
        /\ ~CycleStarted

RequiredFlagsSet ==
    /\ cfg.mainNodeName # ""
    /\ cfg.iotaHornetSelector # ""
    /\ cfg.iotaHornetNs # ""
    /\ cfg.privateKeyFile # ""

\* C20, amended: when the four required flags are set and the main node's
\* name is the local node's name the process never exits, never loads the key
\* and starts no cycle: it goes to its idle loop and stays there.
C20_MainNodeIdles ==
    /\ (LocalIsMain /\ RequiredFlagsSet) =>
          /\ pc \in {"start", "checkMain", "idle"}
          /\ exitCode = 0
          /\ multiaddress = <<>>
          /\ ~CycleStarted
    /\ pc = "idle" => LocalIsMain

C20_Witness ==
    /\ pc = "idle"
    /\ LocalIsMain
    /\ table # <<>>

---------------------------------------------------------------------------
(* C18 *)

\* Records of a table that are not under the local node's name
OtherRecords(t) == {t[i] : i \in {j \in 1..Len(t) : ~UnderMyName(t[j])}}

\* Ids carried by records under the local node's name: those of the snapshot
\* and the peer id of the desired multiaddress, which the created record gets
IdsUnderMyName ==
    {peers[i].id.v : i \in {j \in MineAt : peers[j].id.t = "string"}}
    \cup (IF multiaddress = <<>> THEN {}
          ELSE {SubSeq(multiaddress, Len(multiaddress), Len(multiaddress))})

DeletesKeyedByMine ==
    \A k \in 1..Len(Deletes) : \E i \in MineAt : IsDeleteOf(Deletes[k], peers[i])

\* C18: every DELETE is keyed by the id of a snapshot record under the local
\* node's name, and no step adds, removes or alters a record of the peer
\* table under another name, unless its id is one carried by a record under
\* the local node's name.
C18_Frame ==
    [][/\ DeletesKeyedByMine'
       /\ \A r \in OtherRecords(table) :
              (r.id.t = "string" /\ r.id.v \in IdsUnderMyName) \/ r \in OtherRecords(table')
       /\ OtherRecords(table') \subseteq OtherRecords(table)]_vars

\* A cycle that deleted and created while another peer's record stayed
C18_Witness ==
    /\ Returned /\ ret = "true"
    /\ Len(Deletes) = 1
    /\ Len(Posts) = 1
    /\ OtherRecords(table) # {}
    /\ OtherRecords(table) = OtherRecords(peers)

---------------------------------------------------------------------------
(* C12 *)

\* The process keeps taking its own steps: a sleep ends, a call that is
\* answered returns. The key file is written by the hornet container, which
\* nothing obliges to do so.
LiveSpec == Spec /\ WF_vars(Next /\ keyFile' = keyFile)

\* A step in which the lookup, if made, finds exactly one pod with an IP and
\* the request, if sent, is answered with the success status of its method
GoodStep ==
    /\ (pc = "tryPeering" /\ pc' # "tryPeering") => ~LookupUnresolved(podList')
    /\ Len(calls') > Len(calls) =>
           /\ calls'[Len(calls')].res.kind = "response"
           /\ ~CallFailed(calls'[Len(calls')])

\* A cycle has reported success and the table holds an up-to-date record
\* under the local node's name
Converged ==
    /\ Returned /\ ret = "true"
    /\ \E i \in MineInTable : UpToDate(table[i])

\* C12: if the reconciler reaches its first cycle and from some point on
\* every lookup resolves and every request succeeds, then eventually a cycle
\* reports success with an up-to-date record under the local node's name in
\* the table.
C12_AsClaimed ==
    (<>(pc = "tryPeering") /\ <>[][GoodStep]_vars) => <>Converged
=============================================================================
